---- MODULE Spec2Model ----
(***************************************************************************)
(* Model of the misbehaviour monitor of the relayer CLI                    *)
(* (relayer-cli/src/commands/misbehaviour.rs) and of the wire conversions  *)
(* of the mock light client (modules/src/mock/header.rs, client_state.rs). *)
(***************************************************************************)
EXTENDS Integers, Sequences, FiniteSets, TLC

(***************************************************************************)
(* Bounds of the model.                                                    *)
(***************************************************************************)
MaxEvents == 3
MaxRevision == 1
MaxTimestamp == 2
MaxConcEvents == 2
MaxSeconds == 1

(***************************************************************************)
(* The chain's clients and the events a subscription can deliver.          *)
(***************************************************************************)
ClientIds == {"07-tendermint-5", "07-tendermint-9"}

NoClient == "none"

\* Option<UpdateClient>::None, in the shape of an update
NoUpdate == [client |-> NoClient, h |-> 0]

OtherKinds == {"CreateClient", "ClientMisbehaviour", "Other"}

\* an event without its serial number: its kind and, for UpdateClient, its client id
EventShapes ==
    {[kind |-> "UpdateClient", client |-> c] : c \in ClientIds}
        \cup {[kind |-> k, client |-> NoClient] : k \in OtherKinds}

SeqsUpTo(S, n) == UNION {[1..m -> S] : m \in 0..n}

\* the batches that can follow `received` events: every event carries its
\* position in the stream (h), so that no two events are equal
EventBatches(received) ==
    {[i \in DOMAIN shapes |->
          [kind |-> shapes[i].kind, client |-> shapes[i].client,
           h |-> received + i]] :
        shapes \in SeqsUpTo(EventShapes, MaxEvents - received) \ {<<>>}}

\* the duplicate-free orderings of the subsets of ClientIds
ClientLists ==
    {s \in SeqsUpTo(ClientIds, Cardinality(ClientIds)) :
        \A i, j \in DOMAIN s : i # j => s[i] # s[j]}

Range(s) == {s[i] : i \in DOMAIN s}

VARIABLES
    filter,        \* client_id : Option<ClientId> of the command
    chainClients,  \* the client ids the chain holds, as query_clients lists them
    frozen,        \* the client ids whose ClientState on the chain is frozen
    pc,            \* position of monitor_misbehaviour
    ret,           \* its return value once pc = "done"
    pending,       \* client ids still to be cold-checked
    batches,       \* the event batches recv() has returned, in receipt order
    idx,           \* position of the event loop in the last batch
    dispatched,    \* the events the event loop has taken up, in order
    calls,         \* the misbehaviour_handling runs, in order
    trace,         \* the collaborator calls made, in order
    cpc,           \* position of the conversion under test
    value,         \* the in-memory value a conversion starts from
    wire,          \* the raw message, or the outcome of producing it
    result,        \* the outcome of try_from
    mon,           \* the monitors that run side by side: position and result
    stream,        \* the events their subscriptions deliver, batch by batch
    stop           \* a stop of the monitors has been asked for

monitorVars ==
    <<filter, chainClients, frozen, pc, ret, pending, batches, idx,
      dispatched, calls, trace>>

codecVars == <<cpc, value, wire, result>>

concVars == <<mon, stream, stop>>

vars == <<monitorVars, codecVars, concVars>>

(***************************************************************************)
(* misbehaviour_handling                                                   *)
(***************************************************************************)

\* one collaborator call, made by run number call (0: by monitor_misbehaviour)
Call(call, op, id, upd, res) ==
    [call |-> call, op |-> op, id |-> id, upd |-> upd, res |-> res]

\* ClientState::chain_id of the state the chain holds for a client
chain_id(client_id) ==
    IF client_id = "07-tendermint-5" THEN "ibc-1" ELSE "ibc-2"

\* what query_client_state(client_id, Height::zero()) can answer
QueryAnswers(chain, frz, client_id) ==
    IF client_id \notin Range(chain) THEN {"Err"}
    ELSE {"Err", IF client_id \in frz THEN "Frozen" ELSE "Active"}

\* the answers of the collaborators to one run
Envs(chain, frz, client_id) ==
    [query : QueryAnswers(chain, frz, client_id),
     spawn : {"Ok", "Err"},
     detect : {"OkNone", "OkSome", "Err"}]

\* a frozen state taken for a live one
is_frozen_never(client_state) == FALSE

\* client_state.is_frozen()
is_frozen(client_state) == client_state = "Frozen"

\* every Ok taken for a submission
Reported_any(detection_result) == TRUE

\* if let Some(evidence_submission_result) = misbehaviour_detection_result
Reported(detection_result) == detection_result = "OkSome"

\* Height::zero(): the latest height
Height_zero == [revision_number |-> 0, revision_height |-> 0]

\* the run that checks without the update it was given
misbehaviour_handling_cold(call, client_id, update, env) ==
    LET q == Call(call, "query_client_state", client_id, NoUpdate, env.query)
               @@ [height |-> Height_zero]
        s == Call(call, "spawn_chain_runtime", chain_id(client_id), NoUpdate,
                  env.spawn)
        r == Call(call, "restore_client", client_id, NoUpdate, "Ok")
        d == Call(call, "detect_misbehaviour_and_send_evidence", client_id,
                  NoUpdate, env.detect)
        i == Call(call, "info", client_id, NoUpdate, "Ok")
    IN  IF env.query = "Err" THEN [calls |-> <<q>>, ret |-> "Err"]
        ELSE IF is_frozen(env.query) THEN [calls |-> <<q>>, ret |-> "Ok"]
        ELSE IF env.spawn = "Err" THEN [calls |-> <<q, s>>, ret |-> "Err"]
        ELSE IF env.detect = "Err" THEN [calls |-> <<q, s, r, d>>, ret |-> "Err"]
        ELSE IF Reported(env.detect)
             THEN [calls |-> <<q, s, r, d, i>>, ret |-> "Ok"]
        ELSE [calls |-> <<q, s, r, d>>, ret |-> "Ok"]

\* the collaborator calls of one run and its return value
misbehaviour_handling(call, client_id, update, env) ==
    LET q == Call(call, "query_client_state", client_id, NoUpdate, env.query)
               @@ [height |-> Height_zero]
        s == Call(call, "spawn_chain_runtime", chain_id(client_id), NoUpdate,
                  env.spawn)
        r == Call(call, "restore_client", client_id, NoUpdate, "Ok")
        d == Call(call, "detect_misbehaviour_and_send_evidence", client_id,
                  update, env.detect)
        i == Call(call, "info", client_id, NoUpdate, "Ok")
    IN  IF env.query = "Err" THEN [calls |-> <<q>>, ret |-> "Err"]
        ELSE IF is_frozen(env.query) THEN [calls |-> <<q>>, ret |-> "Ok"]
        ELSE IF env.spawn = "Err" THEN [calls |-> <<q, s>>, ret |-> "Err"]
        ELSE IF env.detect = "Err" THEN [calls |-> <<q, s, r, d>>, ret |-> "Err"]
        ELSE IF Reported(env.detect)
             THEN [calls |-> <<q, s, r, d, i>>, ret |-> "Ok"]
        ELSE [calls |-> <<q, s, r, d>>, ret |-> "Ok"]

\* the chain freezes a client once evidence against it was submitted
evidence_accepted(frz, client_id, run) ==
    IF \E k \in DOMAIN run.calls :
           /\ run.calls[k].op = "detect_misbehaviour_and_send_evidence"
           /\ run.calls[k].res = "OkSome"
    THEN frz \cup {client_id}
    ELSE frz

\* the caller taking a failed run for misbehaviour and freezing the client
Handle_decides(client_id, update, phase, env, next) ==
    LET n == Len(calls) + 1
        run == misbehaviour_handling(n, client_id, update, env)
    IN  /\ trace' = trace \o run.calls
        /\ calls' = Append(calls, [client |-> client_id, upd |-> update,
                                   phase |-> phase, ret |-> run.ret])
        /\ frozen' = IF run.ret = "Err" THEN frozen \cup {client_id}
                     ELSE evidence_accepted(frozen, client_id, run)
        /\ IF run.ret = "Err"
           THEN pc' = "done" /\ ret' = "Err"
           ELSE pc' = next /\ ret' = ret

\* one run of misbehaviour_handling; `next` is where the caller goes on Ok
Handle(client_id, update, phase, env, next) ==
    LET n == Len(calls) + 1
        run == misbehaviour_handling(n, client_id, update, env)
    IN  /\ trace' = trace \o run.calls
        /\ calls' = Append(calls, [client |-> client_id, upd |-> update,
                                   phase |-> phase, ret |-> run.ret])
        /\ frozen' = evidence_accepted(frozen, client_id, run)
        /\ IF run.ret = "Err"       \* the ? operator
           THEN pc' = "done" /\ ret' = "Err"
           ELSE pc' = next /\ ret' = ret

(***************************************************************************)
(* monitor_misbehaviour                                                    *)
(***************************************************************************)

\* let chain = spawn_chain_runtime(&config, chain_id)...?
SpawnChain ==
    /\ pc = "spawn"
    /\ \E res \in {"Ok", "Err"} :
          /\ trace' = Append(trace,
                 Call(0, "spawn_chain_runtime", "ibc-0", NoUpdate, res))
          /\ IF res = "Err" THEN pc' = "done" /\ ret' = "Err"
             ELSE pc' = "subscribe" /\ ret' = ret
    /\ UNCHANGED <<filter, chainClients, frozen, pending, batches, idx,
                   dispatched, calls, codecVars, concVars>>

\* let subscription = chain.subscribe()?
Subscribe ==
    /\ pc = "subscribe"
    /\ \E res \in {"Ok", "Err"} :
          /\ trace' = Append(trace, Call(0, "subscribe", "ibc-0", NoUpdate, res))
          /\ IF res = "Err" THEN pc' = "done" /\ ret' = "Err"
             ELSE pc' = "query_clients" /\ ret' = ret
    /\ UNCHANGED <<filter, chainClients, frozen, pending, batches, idx,
                   dispatched, calls, codecVars, concVars>>

\* the filter forgotten: every client of the chain is cold-checked
BootstrapTargets_all(client_id, clients) == clients

\* match client_id { Some(client_id) => ..., None => for client_id in clients.iter() }
BootstrapTargets(client_id, clients) ==
    IF client_id # NoClient THEN <<client_id>> ELSE clients

\* a failed query_clients passed over when a filter names the client to check
QueryClients_lenient ==
    /\ pc = "query_clients"
    /\ \E res \in {"Ok", "Err"} :
          /\ trace' = Append(trace,
                 Call(0, "query_clients", "ibc-0", NoUpdate, res))
          /\ IF res = "Err" /\ filter = NoClient
             THEN pc' = "done" /\ ret' = "Err" /\ pending' = pending
             ELSE /\ pending' = BootstrapTargets(filter, chainClients)
                  /\ pc' = IF pending' = <<>> THEN "recv" ELSE "bootstrap"
                  /\ ret' = ret
    /\ UNCHANGED <<filter, chainClients, frozen, batches, idx, dispatched,
                   calls, codecVars, concVars>>

\* let clients = chain.query_clients(..)...?
QueryClients ==
    /\ pc = "query_clients"
    /\ \E res \in {"Ok", "Err"} :
          /\ trace' = Append(trace,
                 Call(0, "query_clients", "ibc-0", NoUpdate, res))
          /\ IF res = "Err"
             THEN pc' = "done" /\ ret' = "Err" /\ pending' = pending
             ELSE /\ pending' = BootstrapTargets(filter, chainClients)
                  /\ pc' = IF pending' = <<>> THEN "recv" ELSE "bootstrap"
                  /\ ret' = ret
    /\ UNCHANGED <<filter, chainClients, frozen, batches, idx, dispatched,
                   calls, codecVars, concVars>>

\* misbehaviour_handling(chain.clone(), config, client_id, None)?
Bootstrap ==
    /\ pc = "bootstrap"
    /\ pending # <<>>
    /\ \E env \in Envs(chainClients, frozen, Head(pending)) :
          Handle(Head(pending), NoUpdate, "bootstrap", env,
                 IF Tail(pending) = <<>> THEN "recv" ELSE "bootstrap")
    /\ pending' = Tail(pending)
    /\ UNCHANGED <<filter, chainClients, batches, idx, dispatched, codecVars, concVars>>

\* while let Ok(event_batch) = subscription.recv()
RecvBatch ==
    /\ pc = "recv"
    /\ \E b \in EventBatches(Len(dispatched)) :
          /\ batches' = Append(batches, b)
          /\ pc' = "dispatch"
          /\ idx' = 1
    /\ trace' = Append(trace, Call(0, "recv", "ibc-0", NoUpdate, "Ok"))
    /\ UNCHANGED <<filter, chainClients, frozen, ret, pending, dispatched,
                   calls, codecVars, concVars>>

\* the closed subscription returned as an error
RecvClosed_err ==
    /\ pc = "recv"
    /\ trace' = Append(trace, Call(0, "recv", "ibc-0", NoUpdate, "Err"))
    /\ pc' = "done"
    /\ ret' = "Err"
    /\ UNCHANGED <<filter, chainClients, frozen, pending, batches, idx,
                   dispatched, calls, codecVars, concVars>>

\* recv() returns Err: the loop ends and the function returns Ok(())
RecvClosed ==
    /\ pc = "recv"
    /\ trace' = Append(trace, Call(0, "recv", "ibc-0", NoUpdate, "Err"))
    /\ pc' = "done"
    /\ ret' = "Ok"
    /\ UNCHANGED <<filter, chainClients, frozen, pending, batches, idx,
                   dispatched, calls, codecVars, concVars>>

\* the batch walked from its end
NextEvent_reversed(batch, i) == batch[Len(batch) + 1 - i]

\* for event in event_batch.events.iter()
NextEvent(batch, i) == batch[i]

CurrentEvent == NextEvent(batches[Len(batches)], idx)

\* where the event loop goes after the event at idx
AfterEvent == IF idx < Len(batches[Len(batches)]) THEN "dispatch" ELSE "recv"

Advance ==
    idx' = IF idx < Len(batches[Len(batches)]) THEN idx + 1 ELSE idx

\* the filter not applied
InScope_always(client_id, update) == TRUE

\* if let Some(specified_client) = client_id { if update.client_id() != specified_client { continue } }
InScope(client_id, update) ==
    client_id = NoClient \/ update.client = client_id

\* IbcEvent::UpdateClient(update), dropped by the filter
SkipUpdateClient ==
    /\ pc = "dispatch"
    /\ CurrentEvent.kind = "UpdateClient"
    /\ ~InScope(filter, CurrentEvent)
    /\ dispatched' = Append(dispatched, CurrentEvent)
    /\ pc' = AfterEvent
    /\ Advance
    /\ UNCHANGED <<filter, chainClients, frozen, ret, pending, batches, calls,
                   trace, codecVars, concVars>>

\* IbcEvent::UpdateClient(update) => misbehaviour_handling(.., update.client_id(), Some(update.clone()))?
DispatchUpdateClient ==
    /\ pc = "dispatch"
    /\ CurrentEvent.kind = "UpdateClient"
    /\ InScope(filter, CurrentEvent)
    /\ LET update == [client |-> CurrentEvent.client, h |-> CurrentEvent.h]
       IN  \E env \in Envs(chainClients, frozen, update.client) :
              Handle(update.client, update, "listening", env, AfterEvent)
    /\ dispatched' = Append(dispatched, CurrentEvent)
    /\ Advance
    /\ UNCHANGED <<filter, chainClients, pending, batches, codecVars, concVars>>

\* an arm that runs a cold check of the event's client
Ignore_detects(kind) ==
    /\ pc = "dispatch"
    /\ CurrentEvent.kind = kind
    /\ \E env \in Envs(chainClients, frozen, CurrentEvent.client) :
          Handle(CurrentEvent.client, NoUpdate, "listening", env, AfterEvent)
    /\ dispatched' = Append(dispatched, CurrentEvent)
    /\ Advance
    /\ UNCHANGED <<filter, chainClients, pending, batches, codecVars, concVars>>

\* the arms of the match that do nothing
Ignore(kind) ==
    /\ pc = "dispatch"
    /\ CurrentEvent.kind = kind
    /\ dispatched' = Append(dispatched, CurrentEvent)
    /\ pc' = AfterEvent
    /\ Advance
    /\ UNCHANGED <<filter, chainClients, frozen, ret, pending, batches, calls,
                   trace, codecVars, concVars>>

DispatchCreateClient == Ignore("CreateClient")

DispatchClientMisbehaviour == Ignore("ClientMisbehaviour")

DispatchOther == Ignore("Other")

MonitorInit ==
    /\ filter \in ClientIds \cup {NoClient}
    /\ chainClients \in ClientLists
    /\ frozen \in SUBSET Range(chainClients)
    /\ pc = "spawn"
    /\ ret = "None"
    /\ pending = <<>>
    /\ batches = <<>>
    /\ idx = 0
    /\ dispatched = <<>>
    /\ calls = <<>>
    /\ trace = <<>>

CodecIdle ==
    /\ cpc = "idle"
    /\ value = [type |-> "None"]
    /\ wire = [tag |-> "None"]
    /\ result = [tag |-> "None"]

\* no monitors side by side
ConcIdle ==
    /\ mon = <<>>
    /\ stream = <<>>
    /\ stop = FALSE

Init == MonitorInit /\ CodecIdle /\ ConcIdle

Next ==
    \/ SpawnChain
    \/ Subscribe
    \/ QueryClients
    \/ Bootstrap
    \/ RecvBatch
    \/ RecvClosed
    \/ SkipUpdateClient
    \/ DispatchUpdateClient
    \/ DispatchCreateClient
    \/ DispatchClientMisbehaviour
    \/ DispatchOther

Spec == Init /\ [][Next]_vars

(***************************************************************************)
(* The wire conversions of the mock client: mock/header.rs and             *)
(* mock/client_state.rs.                                                   *)
(***************************************************************************)

Ok(v) == [tag |-> "Ok", val |-> v]

Err(kind) == [tag |-> "Err", kind |-> kind]

\* the thread panics: Option::unwrap on None
Panic == [tag |-> "Panic"]

None == [tag |-> "None"]

Some(v) == [tag |-> "Some", val |-> v]

Timestamps == 0..MaxTimestamp

Heights == [revision_number : 0..MaxRevision, revision_height : 0..MaxRevision]

\* Option<RawHeight> as it arrives: absent, one Height::try_from rejects, or
\* the two numbers
Malformed == [tag |-> "Malformed"]

RawHeights == {None, Malformed} \cup {Some(h) : h \in Heights}

RawMockHeaders == [height : RawHeights, timestamp : Timestamps]

RawMockStates == [header : {None} \cup {Some(r) : r \in RawMockHeaders}]

MockHeaders == [height : Heights, timestamp : Timestamps]

\* the values of the three mock types
MockHeaderValue(h) == [type |-> "MockHeader", header |-> h]

MockClientState(h) == [type |-> "MockClientState", header |-> h]

MockConsensusState(h) == [type |-> "MockConsensusState", header |-> h]

MockValues ==
    {MockHeaderValue(h) : h \in MockHeaders}
        \cup {MockClientState(h) : h \in MockHeaders}
        \cup {MockConsensusState(h) : h \in MockHeaders}

\* a raw message of the type that encodes `type`
Raw(type, msg) == [tag |-> "Raw", type |-> type, msg |-> msg]

RawMessages ==
    {Raw("MockHeader", r) : r \in RawMockHeaders}
        \cup {Raw("MockClientState", r) : r \in RawMockStates}
        \cup {Raw("MockConsensusState", r) : r \in RawMockStates}

\* Height::try_from(RawHeight)
Height_try_from(raw_height) ==
    IF raw_height = Malformed THEN Err("InvalidHeight") ELSE Ok(raw_height.val)

\* RawHeight::from(Height)
RawHeight_from(height) == Some(height)

\* impl TryFrom<RawMockHeader> for MockHeader
MockHeader_try_from(raw) ==
    IF raw.height = None THEN Err("InvalidRawHeader")
    ELSE LET height == Height_try_from(raw.height)
         IN  IF height.tag = "Err" THEN Err("InvalidRawHeader")
             ELSE Ok([height |-> height.val, timestamp |-> raw.timestamp])

\* impl TryFrom<RawMockClientState> for MockClientState
MockClientState_try_from(raw) ==
    IF raw.header = None THEN Panic           \* raw.header.unwrap()
    ELSE LET header == MockHeader_try_from(raw.header.val)
         IN  IF header.tag = "Err" THEN header           \* the ? operator
             ELSE Ok(MockClientState(header.val))

\* impl TryFrom<RawMockConsensusState> for MockConsensusState
MockConsensusState_try_from(raw) ==
    IF raw.header = None THEN Err("InvalidRawConsensusState")
    ELSE LET header == MockHeader_try_from(raw.header.val)
         IN  IF header.tag = "Err" THEN header           \* the ? operator
             ELSE Ok(MockConsensusState(header.val))

\* impl From<MockHeader> for RawMockHeader: value.into() is this very
\* function, so the call never returns: the stack overflows, or the build
\* turned the tail call into a loop
RawMockHeader_from(v) == {[tag |-> "StackOverflow"], [tag |-> "NoReturn"]}

\* impl From<MockClientState> for RawMockClientState
RawMockClientState_from(v) ==
    {Raw("MockClientState",
         [header |-> Some([height |-> RawHeight_from(v.header.height),
                           timestamp |-> v.header.timestamp])])}

\* impl From<MockConsensusState> for RawMockConsensusState
RawMockConsensusState_from(v) ==
    {Raw("MockConsensusState",
         [header |-> Some([height |-> RawHeight_from(v.header.height),
                           timestamp |-> v.header.timestamp])])}

\* a conversion into the raw message: From<..> for Raw..
Into(type, outcomes) ==
    /\ cpc = "value"
    /\ value.type = type
    /\ \E o \in outcomes :
          /\ wire' = o
          /\ cpc' = IF o.tag = "Raw" THEN "encoded" ELSE "aborted"
    /\ UNCHANGED <<value, result, monitorVars, concVars>>

IntoRawMockHeader == Into("MockHeader", RawMockHeader_from(value))

IntoRawMockClientState == Into("MockClientState", RawMockClientState_from(value))

IntoRawMockConsensusState ==
    Into("MockConsensusState", RawMockConsensusState_from(value))

\* a conversion from the raw message, received or just produced: TryFrom<Raw..>
TryFrom(type, outcome) ==
    /\ cpc \in {"raw", "encoded"}
    /\ wire.type = type
    /\ result' = outcome
    /\ cpc' = IF outcome = Panic THEN "panicked" ELSE "decoded"
    /\ UNCHANGED <<value, wire, monitorVars, concVars>>

TryFromRawMockHeader ==
    TryFrom("MockHeader",
            IF wire.type = "MockHeader"
            THEN LET r == MockHeader_try_from(wire.msg)
                 IN  IF r.tag = "Ok" THEN Ok(MockHeaderValue(r.val)) ELSE r
            ELSE None)

TryFromRawMockClientState ==
    TryFrom("MockClientState",
            IF wire.type = "MockClientState"
            THEN MockClientState_try_from(wire.msg) ELSE None)

TryFromRawMockConsensusState ==
    TryFrom("MockConsensusState",
            IF wire.type = "MockConsensusState"
            THEN MockConsensusState_try_from(wire.msg) ELSE None)

\* todo!(): the thread panics with "not yet implemented"
Unimplemented == [tag |-> "NotYetImplemented"]

\* fn client_type(&self) -> ClientType of the three mock types
client_type(v) == "Mock"

\* AnyHeader::Mock(..), AnyClientState::Mock(..), AnyConsensusState::Mock(..)
AnyOf(union, variant, v) ==
    [tag |-> "Any", union |-> union, variant |-> variant, val |-> v]

\* impl Header for MockHeader: fn wrap_any(self) -> AnyHeader { todo!() }
MockHeader_wrap_any(v) == Unimplemented

\* impl Header for MockHeader: fn height(&self) -> Height { todo!() }
MockHeader_Header_height(v) == Unimplemented

\* impl ClientState for MockClientState: fn wrap_any(self)
MockClientState_wrap_any(v) == AnyOf("AnyClientState", "Mock", v)

\* impl ConsensusState for MockConsensusState: fn wrap_any(self)
MockConsensusState_wrap_any(v) == AnyOf("AnyConsensusState", "Mock", v)

\* a call of a trait method on a value: wrap_any, or Header::height
TraitCall(type, method, outcome) ==
    /\ cpc = "value"
    /\ value.type = type
    /\ result' = outcome
    /\ wire' = [tag |-> "Call", method |-> method]
    /\ cpc' = IF outcome = Unimplemented THEN "unimplemented" ELSE "returned"
    /\ UNCHANGED <<value, monitorVars, concVars>>

WrapAnyMockHeader ==
    TraitCall("MockHeader", "wrap_any", MockHeader_wrap_any(value))

HeightOfMockHeader ==
    TraitCall("MockHeader", "height", MockHeader_Header_height(value))

WrapAnyMockClientState ==
    TraitCall("MockClientState", "wrap_any", MockClientState_wrap_any(value))

WrapAnyMockConsensusState ==
    TraitCall("MockConsensusState", "wrap_any",
              MockConsensusState_wrap_any(value))

(***************************************************************************)
(* MockTime and its Timestamp { seconds, nanos } form.  A MockTime is a    *)
(* DateTime<Utc>: whole seconds from the Unix epoch, negative before it,   *)
(* and the nanoseconds 0..999999999 into that second.                      *)
(***************************************************************************)

\* sub-second parts: none, that of "2020-09-14T16:33:00.211914212Z", the last
SubsecNanos == {0, 211914212, 999999999}

MockTimes ==
    {[type |-> "MockTime", secs |-> s, nanos |-> n] :
        s \in (0 - MaxSeconds)..MaxSeconds, n \in SubsecNanos}

\* MockTime::unix_epoch()
unix_epoch == [type |-> "MockTime", secs |-> 0, nanos |-> 0]

\* MockTime::duration_since: signed_duration_since(other).to_std(), which
\* fails on a negative duration
duration_since(self, other) ==
    IF \/ self.secs < other.secs
       \/ self.secs = other.secs /\ self.nanos < other.nanos
    THEN Err("OutOfRange")
    ELSE IF self.nanos >= other.nanos
         THEN Ok([secs |-> self.secs - other.secs,
                  nanos |-> self.nanos - other.nanos])
         ELSE Ok([secs |-> self.secs - other.secs - 1,
                  nanos |-> (self.nanos - other.nanos) + 1000000000])

\* MockTime::to_system_time: UNIX_EPOCH + self.duration_since(unix_epoch())?
to_system_time(self) ==
    LET duration_since_epoch == duration_since(self, unix_epoch)
    IN  IF duration_since_epoch.tag = "Err" THEN duration_since_epoch
        ELSE Ok(duration_since_epoch.val)

\* impl From<MockTime> for Timestamp: value.to_system_time().unwrap()
Timestamp_from(v) ==
    LET st == to_system_time(v)
    IN  IF st.tag = "Err" THEN Panic
        ELSE Raw("MockTime", [seconds |-> st.val.secs, nanos |-> st.val.nanos])

\* impl TryFrom<Timestamp> for MockTime: SystemTime::from(prost_value).into()
MockTime_try_from(raw) ==
    Ok([type |-> "MockTime", secs |-> raw.seconds, nanos |-> raw.nanos])

\* Timestamp::from(value) for a MockTime
IntoTimestamp ==
    /\ cpc = "time"
    /\ wire' = Timestamp_from(value)
    /\ cpc' = IF wire' = Panic THEN "time_panicked" ELSE "time_encoded"
    /\ UNCHANGED <<value, result, monitorVars, concVars>>

\* MockTime::try_from(timestamp) for the Timestamp just produced
TryFromTimestamp ==
    /\ cpc = "time_encoded"
    /\ result' = MockTime_try_from(wire.msg)
    /\ cpc' = "time_decoded"
    /\ UNCHANGED <<value, wire, monitorVars, concVars>>

\* no monitor_misbehaviour is running
MonitorOff ==
    /\ filter = NoClient
    /\ chainClients = <<>>
    /\ frozen = {}
    /\ pc = "off"
    /\ ret = "None"
    /\ pending = <<>>
    /\ batches = <<>>
    /\ idx = 0
    /\ dispatched = <<>>
    /\ calls = <<>>
    /\ trace = <<>>

\* a conversion starts from a value in memory or from a message off the wire
CodecInit ==
    /\ MonitorOff
    /\ ConcIdle
    /\ result = None
    /\ \/ cpc = "value" /\ value \in MockValues /\ wire = None
       \/ cpc = "raw" /\ value = [type |-> "None"] /\ wire \in RawMessages
       \/ cpc = "time" /\ value \in MockTimes /\ wire = None

CodecNext ==
    \/ IntoRawMockHeader
    \/ IntoRawMockClientState
    \/ IntoRawMockConsensusState
    \/ TryFromRawMockHeader
    \/ TryFromRawMockClientState
    \/ TryFromRawMockConsensusState
    \/ WrapAnyMockHeader
    \/ HeightOfMockHeader
    \/ WrapAnyMockClientState
    \/ WrapAnyMockConsensusState
    \/ IntoTimestamp
    \/ TryFromTimestamp

SpecCodec == CodecInit /\ [][CodecNext]_vars

(***************************************************************************)
(* Two monitors of one chain side by side, both past their bootstrap: one  *)
(* without a filter, one filtered on a client.  Their subscriptions        *)
(* deliver the same batches.  A run of misbehaviour_handling takes two     *)
(* steps here: up to the call of detect_misbehaviour_and_send_evidence,    *)
(* and the return of that call.                                            *)
(***************************************************************************)

Monitors == {"unfiltered", "filtered"}

\* client_id of each of the two commands
FilterOf(m) == IF m = "filtered" THEN "07-tendermint-9" ELSE NoClient

\* the streams of at most MaxConcEvents events; `last` marks the last event
\* of a batch
ConcStreams ==
    {[i \in DOMAIN shapes |->
          [kind |-> shapes[i].kind, client |-> shapes[i].client, h |-> i,
           last |-> (i = Len(shapes) \/ i \in cuts)]] :
        shapes \in SeqsUpTo(EventShapes, MaxConcEvents) \ {<<>>},
        cuts \in SUBSET (1..(MaxConcEvents - 1))}

ConcInit ==
    /\ filter = NoClient
    /\ chainClients = <<"07-tendermint-5", "07-tendermint-9">>
    /\ frozen \in SUBSET ClientIds
    /\ pc = "off"
    /\ ret = "None"
    /\ pending = <<>>
    /\ batches = <<>>
    /\ idx = 0
    /\ dispatched = <<>>
    /\ calls = <<>>
    /\ trace = <<>>
    /\ CodecIdle
    /\ stream \in ConcStreams
    /\ mon = [m \in Monitors |-> [pc |-> "recv", pos |-> 0, ret |-> "None"]]
    /\ stop = FALSE

ConcFrame ==
    UNCHANGED <<filter, chainClients, pc, ret, pending, batches, idx,
                dispatched, calls, trace, codecVars, stream, stop>>

\* the event monitor m is at
ConcEvent(m) == stream[mon[m].pos]

\* the end of the for body: the next event of the batch, or the next recv()
ConcAdvance(m) ==
    IF ConcEvent(m).last
    THEN [mon EXCEPT ![m].pc = "recv"]
    ELSE [mon EXCEPT ![m].pc = "dispatch", ![m].pos = mon[m].pos + 1]

\* misbehaviour_handling(..)? has returned
ConcReturned(m, r) ==
    IF r = "Err" THEN [mon EXCEPT ![m].pc = "done", ![m].ret = "Err"]
    ELSE ConcAdvance(m)

\* while let Ok(event_batch) = subscription.recv()
ConcRecvBatch(m) ==
    /\ mon[m].pc = "recv"
    /\ mon[m].pos < Len(stream)
    /\ mon' = [mon EXCEPT ![m].pc = "dispatch", ![m].pos = mon[m].pos + 1]
    /\ frozen' = frozen
    /\ ConcFrame

\* recv() returns Err
ConcRecvClosed(m) ==
    /\ mon[m].pc = "recv"
    /\ mon' = [mon EXCEPT ![m].pc = "done", ![m].ret = "Ok"]
    /\ frozen' = frozen
    /\ ConcFrame

\* an event that is no UpdateClient, or one the filter drops
ConcSkip(m) ==
    /\ mon[m].pc = "dispatch"
    /\ \/ ConcEvent(m).kind # "UpdateClient"
       \/ ~InScope(FilterOf(m), ConcEvent(m))
    /\ mon' = ConcAdvance(m)
    /\ frozen' = frozen
    /\ ConcFrame

\* misbehaviour_handling up to client.detect_misbehaviour_and_send_evidence(update)
ConcBeginDetection(m) ==
    /\ mon[m].pc = "dispatch"
    /\ ConcEvent(m).kind = "UpdateClient"
    /\ InScope(FilterOf(m), ConcEvent(m))
    /\ \E env \in Envs(chainClients, frozen, ConcEvent(m).client) :
          LET update == [client |-> ConcEvent(m).client, h |-> ConcEvent(m).h]
              run == misbehaviour_handling(0, update.client, update, env)
          IN  /\ env.detect = "OkNone"
              /\ mon' = IF Len(run.calls) < 4 THEN ConcReturned(m, run.ret)
                        ELSE [mon EXCEPT ![m].pc = "detecting"]
    /\ frozen' = frozen
    /\ ConcFrame

\* detect_misbehaviour_and_send_evidence returns, and misbehaviour_handling after it
ConcEndDetection(m) ==
    /\ mon[m].pc = "detecting"
    /\ \E detect \in {"OkNone", "OkSome", "Err"} :
          LET update == [client |-> ConcEvent(m).client, h |-> ConcEvent(m).h]
              run == misbehaviour_handling(0, update.client, update,
                         [query |-> "Active", spawn |-> "Ok", detect |-> detect])
          IN  /\ mon' = ConcReturned(m, run.ret)
              /\ frozen' = evidence_accepted(frozen, update.client, run)
    /\ ConcFrame

\* the operator asks the monitors to stop; nothing in the code reads it
Signal ==
    /\ ~stop
    /\ stop' = TRUE
    /\ UNCHANGED <<monitorVars, codecVars, mon, stream>>

ConcNext ==
    \/ \E m \in Monitors :
          \/ ConcRecvBatch(m)
          \/ ConcRecvClosed(m)
          \/ ConcSkip(m)
          \/ ConcBeginDetection(m)
          \/ ConcEndDetection(m)
    \/ Signal

SpecConc == ConcInit /\ [][ConcNext]_vars

(***************************************************************************)
(* Properties of the monitor, checked under Spec.                          *)
(***************************************************************************)

RECURSIVE Flatten(_)
Flatten(seqs) == IF seqs = <<>> THEN <<>> ELSE Head(seqs) \o Flatten(Tail(seqs))

IsPrefix(s, t) == Len(s) <= Len(t) /\ s = SubSeq(t, 1, Len(s))

\* the collaborator calls of run n, in order
CallsOf(n) == LET OfRun(c) == c.call = n IN SelectSeq(trace, OfRun)

OpsOf(n) == [k \in DOMAIN CallsOf(n) |-> CallsOf(n)[k].op]

\* the runs made from the bootstrap and from the event loop
BootRuns == LET Boot(c) == c.phase = "bootstrap" IN SelectSeq(calls, Boot)

ListenRuns == LET Listen(c) == c.phase = "listening" IN SelectSeq(calls, Listen)

\* the event loop was entered: recv() was called
LoopEntered == \E k \in DOMAIN trace : trace[k].op = "recv"

\* the state query_client_state returned to run n
StateSeen(n) == CallsOf(n)[1].res

\* C1: whenever query_client_state returns a frozen ClientState, the run
\* returns Ok having made no other collaborator call: no chain spawn, no
\* restore_client, no detect_misbehaviour_and_send_evidence, whatever the
\* client id and the update
FrozenTerminality ==
    \A n \in DOMAIN calls :
        StateSeen(n) = "Frozen" =>
            /\ calls[n].ret = "Ok"
            /\ OpsOf(n) = <<"query_client_state">>

\* a frozen client met by a cold check and one met by an update event
FrozenTerminalityWitness ==
    /\ \E n \in DOMAIN calls :
          StateSeen(n) = "Frozen" /\ calls[n].upd = NoUpdate
    /\ \E n \in DOMAIN calls :
          StateSeen(n) = "Frozen" /\ calls[n].upd # NoUpdate

\* C2: an error of the run made for one event does not end the monitor: it
\* is not returned from the loop and the events received are all dispatched
EventErrorsDoNotTerminate ==
    (\E n \in DOMAIN calls : calls[n].phase = "listening" /\ calls[n].ret = "Err")
        => /\ ret # "Err"
           /\ pc = "done" => dispatched = Flatten(batches)

\* C3: with no filter, a failed cold check does not end the monitor: the
\* other clients are still checked and the event loop is entered
BootstrapErrorsDoNotTerminate ==
    (/\ filter = NoClient
     /\ \E n \in DOMAIN calls : calls[n].phase = "bootstrap" /\ calls[n].ret = "Err")
        => /\ ret # "Err"
           /\ pc = "done" =>
                 /\ LoopEntered
                 /\ [k \in DOMAIN BootRuns |-> BootRuns[k].client] = chainClients

\* C4: the loop ends only after a recv() error that was followed by an
\* attempt to subscribe again
ResubscribesBeforeTerminating ==
    (pc = "done" /\ LoopEntered)
        => \E k \in DOMAIN trace :
              /\ trace[k].op = "recv"
              /\ trace[k].res = "Err"
              /\ \E j \in DOMAIN trace : j > k /\ trace[j].op = "subscribe"

\* the client ids the bootstrap has to check
Targets == IF filter # NoClient THEN <<filter>> ELSE chainClients

\* C5: once the event loop is entered, the runs made before it are one cold
\* check (update None) per target client id, in order, the filter alone when
\* one is set and else the clients query_clients listed; and
\* detect_misbehaviour_and_send_evidence was called once in the checks that
\* saw a live state and not in those that saw a frozen one
BootstrapCoverage ==
    LoopEntered =>
        /\ [k \in DOMAIN BootRuns |-> BootRuns[k].client] = Targets
        /\ \A n \in DOMAIN calls :
              /\ calls[n].phase = "bootstrap" <=> n <= Len(Targets)
              /\ calls[n].phase = "bootstrap" =>
                    /\ calls[n].upd = NoUpdate
                    /\ StateSeen(n) = "Active" =>
                          /\ Len(OpsOf(n)) >= 4
                          /\ OpsOf(n)[4] = "detect_misbehaviour_and_send_evidence"
                    /\ StateSeen(n) = "Frozen" =>
                          OpsOf(n) = <<"query_client_state">>
                    /\ StateSeen(n) \in {"Active", "Frozen"}
                    /\ Cardinality({k \in DOMAIN OpsOf(n) : OpsOf(n)[k] =
                           "detect_misbehaviour_and_send_evidence"}) <= 1

\* scenario A: no filter, two clients, one frozen: detection ran for the
\* other alone, and an event is about to be dispatched
BootstrapCoverageWitness ==
    /\ filter = NoClient
    /\ pc = "dispatch"
    /\ Len(chainClients) = 2
    /\ StateSeen(1) = "Frozen"
    /\ StateSeen(2) = "Active"
    /\ Len(CallsOf(1)) = 1
    /\ Len(CallsOf(2)) >= 4

\* the event the loop is at, read off the batch
EventAt == batches[Len(batches)][idx]

\* C6: with a filter set, an UpdateClient event for another client id has
\* no effect: no run, no collaborator call; any other UpdateClient event
\* makes one run, for the event's client id and with the event's update
ClientFilter ==
    [][(pc = "dispatch" /\ EventAt.kind = "UpdateClient") =>
          IF filter # NoClient /\ EventAt.client # filter
          THEN /\ calls' = calls
               /\ trace' = trace
               /\ frozen' = frozen
               /\ ret' = ret
          ELSE /\ Len(calls') = Len(calls) + 1
               /\ calls'[Len(calls')].client = EventAt.client
               /\ calls'[Len(calls')].upd =
                      [client |-> EventAt.client, h |-> EventAt.h]
               /\ Len(trace') > Len(trace)
               /\ SubSeq(trace', 1, Len(trace)) = trace
               /\ trace'[Len(trace) + 1].op = "query_client_state"
               /\ trace'[Len(trace) + 1].id = EventAt.client
               /\ \A k \in (Len(trace) + 1)..Len(trace') :
                     /\ trace'[k].call = Len(calls')
                     /\ trace'[k].op = "query_client_state" => k = Len(trace) + 1
      ]_vars

\* scenario B: the filter set, an event for another client dropped and an
\* event for the filtered client handled
ClientFilterWitness ==
    /\ filter # NoClient
    /\ \E k \in DOMAIN dispatched :
          dispatched[k].kind = "UpdateClient" /\ dispatched[k].client # filter
    /\ \E k \in DOMAIN dispatched :
          dispatched[k].kind = "UpdateClient" /\ dispatched[k].client = filter

\* the UpdateClient events of a sequence the filter lets through
InScopeUpdates(events) ==
    LET Wanted(e) ==
            /\ e.kind = "UpdateClient"
            /\ filter = NoClient \/ e.client = filter
    IN  SelectSeq(events, Wanted)

\* C7: the events are taken up batch by batch and in the order of the batch,
\* and the runs made from the event loop are, one for one and in order, the
\* in-scope UpdateClient events taken up so far: none merged, none dropped
DispatchOrder ==
    /\ IsPrefix(dispatched, Flatten(batches))
    /\ pc = "recv" => dispatched = Flatten(batches)
    /\ [k \in DOMAIN ListenRuns |->
           [client |-> ListenRuns[k].client, h |-> ListenRuns[k].upd.h]]
         = [k \in DOMAIN InScopeUpdates(dispatched) |->
              [client |-> InScopeUpdates(dispatched)[k].client,
               h |-> InScopeUpdates(dispatched)[k].h]]
    /\ \A k \in DOMAIN ListenRuns : ListenRuns[k].upd.client = ListenRuns[k].client

\* two events for one client in the first batch, a third in a second batch:
\* three runs
DispatchOrderWitness ==
    /\ Len(batches) = 2
    /\ Len(batches[1]) = 2
    /\ batches[1][1].kind = "UpdateClient"
    /\ batches[1][2].kind = "UpdateClient"
    /\ batches[1][1].client = batches[1][2].client
    /\ Len(ListenRuns) = 3

\* C8: a report is made exactly after detect_misbehaviour_and_send_evidence
\* returned Ok(Some(_)), once, and the run that made it returns Ok: the
\* monitor goes on with the next target, the next event of the batch or the
\* next recv()
ReportOnSubmission ==
    /\ \A k \in DOMAIN trace :
          /\ (trace[k].op = "detect_misbehaviour_and_send_evidence"
                 /\ trace[k].res = "OkSome")
                => /\ k < Len(trace)
                   /\ trace[k + 1].op = "info"
                   /\ trace[k + 1].call = trace[k].call
          /\ trace[k].op = "info"
                => /\ k > 1
                   /\ trace[k - 1].op = "detect_misbehaviour_and_send_evidence"
                   /\ trace[k - 1].res = "OkSome"
                   /\ trace[k - 1].call = trace[k].call
                   /\ calls[trace[k].call].ret = "Ok"
    /\ (trace # <<>> /\ trace[Len(trace)].op = "info") =>
          pc = (IF pending # <<>> THEN "bootstrap"
                ELSE IF Len(dispatched) < Len(Flatten(batches)) THEN "dispatch"
                ELSE "recv")

\* a submission reported for the first event of a batch, and the second
\* event handled after it without a report
ReportOnSubmissionWitness ==
    \E k \in DOMAIN trace :
        /\ trace[k].op = "info"
        /\ calls[trace[k].call].phase = "listening"
        /\ \E j \in DOMAIN trace :
              /\ j > k
              /\ trace[j].op = "detect_misbehaviour_and_send_evidence"
              /\ trace[j].res = "OkNone"
              /\ Len(batches) = 1

(***************************************************************************)
(* Properties of the wire conversions, checked under SpecCodec.            *)
(***************************************************************************)

\* the header of a raw message lacks its height, or carries one that
\* Height::try_from rejects
LacksHeight(raw_header) == raw_header.height \in {None, Malformed}

\* a raw message without its header or its height
LacksRequired(w) ==
    IF w.type = "MockHeader" THEN LacksHeight(w.msg)
    ELSE w.msg.header = None \/ LacksHeight(w.msg.header.val)

\* the error kind of the message being decoded
InvalidRawKind(type) ==
    IF type = "MockHeader" THEN "InvalidRawHeader"
    ELSE IF type = "MockClientState" THEN "InvalidRawClientState"
    ELSE "InvalidRawConsensusState"

\* C9: try_from on a raw message without its header or its height returns
\* Err with the InvalidRaw* kind of the message decoded, and does not panic
DecodeReject ==
    (cpc \in {"decoded", "panicked"} /\ LacksRequired(wire))
        => result = Err(InvalidRawKind(wire.type))

\* C10: a value converted to its raw message and back is the value again:
\* the conversion to the raw message returns, and try_from gives Ok(value)
RoundTrip ==
    value.type # "None" =>
        /\ cpc \notin {"aborted", "panicked"}
        /\ cpc = "decoded" => result = Ok(value)

\* C11: the conversion of a value to its raw message returns, and the raw
\* message carries its header and its height
ToWireTotal ==
    cpc \in {"encoded", "aborted"} =>
        /\ wire.tag = "Raw"
        /\ IF wire.type = "MockHeader" THEN wire.msg.height.tag = "Some"
           ELSE /\ wire.msg.header.tag = "Some"
                /\ wire.msg.header.val.height.tag = "Some"

\* C12: wrap_any, and height() of the Header trait, return, and wrap_any
\* gives the variant of the union that the value's client_type() names
WrapAnyTotal ==
    cpc \in {"returned", "unimplemented"} =>
        /\ result # Unimplemented
        /\ wire.method = "wrap_any" =>
              /\ result.tag = "Any"
              /\ result.variant = client_type(value)
              /\ result.val = value

(***************************************************************************)
(* Further properties of the monitor, checked under Spec.                  *)
(***************************************************************************)

\* the calls the monitor makes on the ChainHandle, and those it makes on
\* the subscription, on ForeignClient, on the runtime and on the log
ChainHandleOps == {"subscribe", "query_clients", "query_client_state"}

OtherOps ==
    {"spawn_chain_runtime", "recv", "restore_client",
     "detect_misbehaviour_and_send_evidence", "info"}

\* C13: no step of the monitor changes the clients the chain holds; the
\* state of a client changes only in a step in which
\* detect_misbehaviour_and_send_evidence, called for that client, returned
\* Ok(Some(_)); and on the ChainHandle the monitor calls nothing but
\* subscribe, query_clients and query_client_state
ClientRecordsUntouched ==
    [][/\ chainClients' = chainClients
       /\ frozen' # frozen =>
             \E k \in (Len(trace) + 1)..Len(trace') :
                /\ trace'[k].op = "detect_misbehaviour_and_send_evidence"
                /\ trace'[k].res = "OkSome"
                /\ frozen' = frozen \cup {trace'[k].id}
       /\ \A k \in (Len(trace) + 1)..Len(trace') :
             trace'[k].op \in ChainHandleOps \cup OtherOps
      ]_vars

\* a client frozen after evidence was submitted, and a failed run before
\* which the client's state stayed as it was
ClientRecordsUntouchedWitness ==
    /\ \E k \in DOMAIN trace :
          /\ trace[k].op = "detect_misbehaviour_and_send_evidence"
          /\ trace[k].res = "OkSome"
          /\ trace[k].id \in frozen
    /\ \E n \in DOMAIN calls : calls[n].ret = "Err" /\ calls[n].client \notin frozen

\* C16: the conversion of a MockTime to its Timestamp does not fail, and the
\* Timestamp converts back to the MockTime it came from
TimeRoundTrip ==
    value.type = "MockTime" =>
        /\ cpc # "time_panicked"
        /\ cpc = "time_decoded" => result = Ok(value)

(***************************************************************************)
(* Properties of monitors side by side, checked under SpecConc.            *)
(***************************************************************************)

\* C14: at no time are two calls of detect_misbehaviour_and_send_evidence
\* under way for one client id
OneDetectionPerClient ==
    \A m1, m2 \in Monitors :
        (/\ mon[m1].pc = "detecting"
         /\ mon[m2].pc = "detecting"
         /\ ConcEvent(m1).client = ConcEvent(m2).client) => m1 = m2

\* C15: a stop that was asked for takes effect between two batches: a
\* monitor waiting in recv() takes up no further batch; and no monitor
\* leaves the loop while its call of detect_misbehaviour_and_send_evidence
\* is under way
StopBetweenBatches ==
    [][\A m \in Monitors :
          /\ (stop /\ mon[m].pc = "recv") => mon'[m].pc # "dispatch"
          /\ (mon[m].pc = "detecting" /\ mon'[m].pc = "done") =>
                mon'[m].ret = "Err"
      ]_vars

(***************************************************************************)
(* Properties of the event kinds, of one run and of the return value,      *)
(* checked under Spec.                                                     *)
(***************************************************************************)

\* the log entries monitor_misbehaviour writes itself, outside the runs
MonitorLogs == {k \in DOMAIN trace : trace[k].call = 0 /\ trace[k].op = "info"}

MisbehaviourEvents ==
    {i \in DOMAIN dispatched : dispatched[i].kind = "ClientMisbehaviour"}

\* C17: every ClientMisbehaviour event taken from a batch has a log entry of
\* its own
MisbehaviourEventsLogged ==
    Cardinality(MonitorLogs) >= Cardinality(MisbehaviourEvents)

\* C18: the step that takes up an event that is no UpdateClient makes no
\* collaborator call and no run, changes no client and no return value, and
\* goes on to the next event of the batch or to the next recv()
OnlyUpdatesTrigger ==
    [][(pc = "dispatch" /\ CurrentEvent.kind # "UpdateClient") =>
          /\ trace' = trace
          /\ calls' = calls
          /\ frozen' = frozen
          /\ ret' = ret
          /\ batches' = batches
          /\ dispatched' = Append(dispatched, CurrentEvent)
          /\ pc' = AfterEvent
          /\ pc' = "dispatch" => idx' = idx + 1
      ]_vars

\* a CreateClient and a ClientMisbehaviour event taken up, and an
\* UpdateClient after them that got its run
OnlyUpdatesTriggerWitness ==
    /\ \A kind \in {"CreateClient", "ClientMisbehaviour"} :
          \E i \in DOMAIN dispatched : dispatched[i].kind = kind
    /\ \E n \in DOMAIN calls : \A i \in DOMAIN dispatched :
          dispatched[i].kind # "UpdateClient" => calls[n].upd.h > dispatched[i].h

DetectionSteps ==
    <<"query_client_state", "spawn_chain_runtime", "restore_client",
      "detect_misbehaviour_and_send_evidence", "info">>

\* C19: a run queries the state of its client id at height zero first; the
\* steps after it come in the order spawn, restore_client, detect, each at
\* most once; the spawn follows a live state and names the chain of that
\* state, restore_client and detect follow a successful spawn and are bound
\* to the client id of the run, and detect is given the update of the run:
\* none in a cold check, the update of the event otherwise
DetectionOrder ==
    \A n \in DOMAIN calls :
        LET c == CallsOf(n)
        IN  /\ Len(c) >= 1
            /\ IsPrefix(OpsOf(n), DetectionSteps)
            /\ c[1].id = calls[n].client
            /\ c[1].height = Height_zero
            /\ Len(c) >= 2 =>
                  /\ c[1].res = "Active"
                  /\ c[2].id = chain_id(calls[n].client)
            /\ Len(c) >= 3 =>
                  /\ c[2].res = "Ok"
                  /\ Len(c) >= 4
                  /\ c[3].id = calls[n].client
                  /\ c[4].id = calls[n].client
                  /\ c[4].upd = calls[n].upd
            /\ IF calls[n].phase = "bootstrap" THEN calls[n].upd = NoUpdate
               ELSE \E i \in DOMAIN dispatched :
                       /\ dispatched[i].kind = "UpdateClient"
                       /\ calls[n].upd = [client |-> dispatched[i].client,
                                          h |-> dispatched[i].h]
                       /\ calls[n].client = dispatched[i].client

\* a cold check and a run for an event that both reached detect
DetectionOrderWitness ==
    /\ \E n \in DOMAIN calls :
          calls[n].phase = "bootstrap" /\ Len(CallsOf(n)) >= 4
    /\ \E n \in DOMAIN calls :
          calls[n].phase = "listening" /\ Len(CallsOf(n)) >= 4

\* the bootstrap is complete: clients were listed and every cold check
\* returned Ok
BootstrapComplete ==
    /\ \E k \in DOMAIN trace :
          trace[k].op = "query_clients" /\ trace[k].res = "Ok"
    /\ pending = <<>>
    /\ \A k \in DOMAIN BootRuns : BootRuns[k].ret = "Ok"

\* C20: the monitor has returned Ok exactly when its last call was a recv()
\* that returned an error, and then the bootstrap was complete; every other
\* return is Err, made right after the call that failed; nothing is
\* returned while the monitor runs
OkIffSubscriptionClosed ==
    LET last == trace[Len(trace)]
    IN  /\ pc # "done" => ret = "None"
        /\ pc = "done" =>
              /\ ret \in {"Ok", "Err"}
              /\ ret = "Ok" <=> (last.op = "recv" /\ last.res = "Err")
              /\ ret = "Ok" => BootstrapComplete
              /\ ret = "Err" =>
                    /\ last.res = "Err"
                    /\ last.op \in {"spawn_chain_runtime", "subscribe",
                                    "query_clients", "query_client_state",
                                    "detect_misbehaviour_and_send_evidence"}

\* the subscription closed after events were handled, and the monitor
\* returned Ok
OkIffSubscriptionClosedWitness ==
    /\ pc = "done"
    /\ ret = "Ok"
    /\ ListenRuns # <<>>

StartUpSteps == <<"spawn_chain_runtime", "subscribe", "query_clients">>

\* the calls monitor_misbehaviour has made itself before its event loop
StartUpCalls ==
    LET OfStartUp(c) == c.call = 0 /\ c.op # "recv"
    IN  SelectSeq(trace, OfStartUp)

\* C21: the monitor starts with spawn_chain_runtime, subscribe and
\* query_clients, in this order and each once, with or without a filter; a
\* call is made only after the one before it succeeded, runs are made and
\* recv() is called only after all three did; and when subscribe or
\* query_clients has failed the monitor has returned Err without any run
StartUpOrder ==
    /\ IsPrefix([k \in DOMAIN StartUpCalls |-> StartUpCalls[k].op], StartUpSteps)
    /\ StartUpCalls = SubSeq(trace, 1, Len(StartUpCalls))
    /\ \A k \in DOMAIN StartUpCalls :
          k < Len(StartUpCalls) => StartUpCalls[k].res = "Ok"
    /\ (calls # <<>> \/ LoopEntered) =>
          /\ Len(StartUpCalls) = 3
          /\ StartUpCalls[3].res = "Ok"
    /\ \A k \in DOMAIN StartUpCalls :
          StartUpCalls[k].res = "Err" =>
              /\ pc = "done"
              /\ ret = "Err"
              /\ calls = <<>>
              /\ Len(trace) = k

\* with a filter set, query_clients has failed after the chain was spawned
\* and subscribed to
StartUpOrderWitness ==
    /\ filter # NoClient
    /\ Len(trace) = 3
    /\ trace[3].op = "query_clients"
    /\ trace[3].res = "Err"

====
